---- MODULE Spec2Model ----
(***************************************************************************)
(* Model of the Figma MCP demo: the web server (express route              *)
(* /api/fetch-component with findNodeByName, extractComponentStyle,        *)
(* rgbaToHex) and the MCP server (class FigmaServer in src/index.js).      *)
(*                                                                         *)
(* JavaScript values are modelled as follows.                              *)
(*   - an object is a record; an attribute that is absent (undefined) is   *)
(*     a field that is not in the record's DOMAIN;                         *)
(*   - a string that the code inspects character by character (a node      *)
(*     name, a hex colour) is a sequence of one-character strings;         *)
(*   - null is the record Null (NullStr where a string is expected);       *)
(*   - a colour channel c in [0,1] is the numerator of c over ChanDen.     *)
(***************************************************************************)
EXTENDS Integers, Sequences, FiniteSets, TLC

VARIABLES
    token,      \* FIGMA_TOKEN: TRUE when the environment variable is set
    pc,         \* position of the request being handled
    req,        \* the request being handled (entry point and its arguments)
    calls,      \* outbound calls to the Figma API made for this request, in order
    doc,        \* response.data.document of the fetch, once it succeeded
    outcome,    \* what the caller receives: an HTTP response or a thrown Error
    input,      \* argument of the function under test (function-level specs)
    output      \* its return value

vars == <<token, pc, req, calls, doc, outcome, input, output>>

-----------------------------------------------------------------------------
(* Bounds of the model *)

\* nodes of a document drawn for the tree search
SearchNodes == 4
\* nodes of a document drawn for the component enumerator
EnumNodes == 3
\* nodes of a document returned by the fetch in the request machine
RouteNodes == 2
\* characters of a string drawn for toPascalCase
MaxLen == 4
\* a colour channel is k / ChanDen, k in 0..ChanDen
ChanDen == 4
\* name tokens concatenated into a node name drawn for the classifier
MaxTokens == 2
\* entries of a `fills` array drawn for the background colour
MaxFills == 2
\* widths and heights of a bounding box are drawn from 0..MaxDim
MaxDim == 2

-----------------------------------------------------------------------------
(* JavaScript values *)

Null == [null |-> TRUE]
\* null where a string is expected: a sequence that is no string of characters
NullStr == <<"null">>
NoFields == <<>>

Has(obj, f) == f \in DOMAIN obj

\* a record with field set only when the attribute is present
Opt(present, rec) == IF present THEN rec ELSE NoFields

\* an argument or attribute drawn as optional: absent, or present with a value
Absent == [has |-> FALSE, v |-> 0]
Some(x) == [has |-> TRUE, v |-> x]
Present(V) == {Some(x) : x \in V}
Optional(V) == {Absent} \cup Present(V)

Lower == <<"a","b","c","d","e","f","g","h","i","j","k","l","m",
           "n","o","p","q","r","s","t","u","v","w","x","y","z">>
Upper == <<"A","B","C","D","E","F","G","H","I","J","K","L","M",
           "N","O","P","Q","R","S","T","U","V","W","X","Y","Z">>
Digits == <<"0","1","2","3","4","5","6","7","8","9">>

Range(s) == {s[i] : i \in DOMAIN s}

IndexIn(s, c) == CHOOSE i \in DOMAIN s : s[i] = c

\* String.prototype.toLowerCase / toUpperCase on one character
charToLowerCase(c) == IF c \in Range(Upper) THEN Lower[IndexIn(Upper, c)] ELSE c
charToUpperCase(c) == IF c \in Range(Lower) THEN Upper[IndexIn(Lower, c)] ELSE c

toLowerCase(s) == [i \in DOMAIN s |-> charToLowerCase(s[i])]
toUpperCase(s) == [i \in DOMAIN s |-> charToUpperCase(s[i])]

\* the characters a..b of s (from 1, both included), cut at the end of s
Slice(s, a, b) ==
    LET hi == IF b > Len(s) THEN Len(s) ELSE b
    IN  IF a > hi THEN <<>> ELSE [i \in 1..(hi - a + 1) |-> s[a + i - 1]]

\* String.prototype.includes
includes(s, sub) ==
    \E i \in 1..(Len(s) - Len(sub) + 1) : SubSeq(s, i, i + Len(sub) - 1) = sub

-----------------------------------------------------------------------------
(* Document trees: the JSON the Figma API returns *)

\* parent[i] < i for every node but the root 1: every ordered tree shape
Shapes(n) == {p \in [2..n -> 1..n] : \A i \in 2..n : p[i] < i}

KidIds(p, i) == {j \in DOMAIN p : p[j] = i}

\* the k-th child of i, children ordered by identifier
Kid(p, i, k) ==
    CHOOSE j \in KidIds(p, i) : Cardinality({m \in KidIds(p, i) : m < j}) = k - 1

RECURSIVE Build(_, _, _, _)
\* the node i of the tree of shape p; attrs[i] holds its own attributes,
\* the nodes of bare carry no `children` attribute when they are leaves
Build(p, attrs, bare, i) ==
    LET n == Cardinality(KidIds(p, i))
    IN  attrs[i] @@
        Opt(n > 0 \/ i \notin bare,
            [children |-> [k \in 1..n |-> Build(p, attrs, bare, Kid(p, i, k))]])

Leaves(p, n) == {i \in 1..n : KidIds(p, i) = {}}

\* the document of shape p with the names nm, the types ty and the bare leaves
DocOf(n, p, nm, ty, bare) ==
    Build(p, [i \in 1..n |-> [id |-> i, name |-> nm[i], type |-> ty[i]]], bare, 1)

\* documents of exactly n nodes with names and types from the given sets;
\* each leaf comes with `children: []` and without `children`
DocsOfSize(n, names, types) ==
    UNION { { DocOf(n, p, nm, ty, bare) :
                <<nm, ty, bare>> \in
                    [1..n -> names] \X [1..n -> types] \X SUBSET Leaves(p, n) } :
            p \in Shapes(n) }

Docs(max, names, types) == UNION {DocsOfSize(n, names, types) : n \in 1..max}

-----------------------------------------------------------------------------
(* Tree search *)

RECURSIVE findNodeByName_childrenFirst(_, _)
RECURSIVE findNodeByName_childrenFirst_loop(_, _, _)
\* the search with the test of the node itself moved after the loop
findNodeByName_childrenFirst(node, name) ==
    LET below == IF Has(node, "children")
                 THEN findNodeByName_childrenFirst_loop(node.children, name, 1)
                 ELSE Null
    IN  IF below # Null THEN below
        ELSE IF node.name = name THEN node ELSE Null
findNodeByName_childrenFirst_loop(children, name, k) ==
    IF k > Len(children) THEN Null
    ELSE LET found == findNodeByName_childrenFirst(children[k], name)
         IN  IF found # Null THEN found
             ELSE findNodeByName_childrenFirst_loop(children, name, k + 1)

RECURSIVE findNodeByName(_, _)
RECURSIVE findNodeByName_loop(_, _, _)
\* web server
findNodeByName(node, name) ==
    IF node.name = name THEN node
    ELSE IF Has(node, "children") THEN findNodeByName_loop(node.children, name, 1)
         ELSE Null
\* for (const child of node.children), from the k-th child on: the first
\* result that is truthy, or null after the last child
findNodeByName_loop(children, name, k) ==
    IF k > Len(children) THEN Null
    ELSE LET found == findNodeByName(children[k], name)
         IN  IF found # Null THEN found ELSE findNodeByName_loop(children, name, k + 1)

RECURSIVE FigmaServer_findNodeByName(_, _)
RECURSIVE FigmaServer_findNodeByName_loop(_, _, _)
\* MCP server
FigmaServer_findNodeByName(node, name) ==
    IF node.name = name THEN node
    ELSE IF Has(node, "children")
         THEN FigmaServer_findNodeByName_loop(node.children, name, 1)
         ELSE Null
FigmaServer_findNodeByName_loop(children, name, k) ==
    IF k > Len(children) THEN Null
    ELSE LET found == FigmaServer_findNodeByName(children[k], name)
         IN  IF found # Null THEN found
             ELSE FigmaServer_findNodeByName_loop(children, name, k + 1)

-----------------------------------------------------------------------------
(* Function-level specification: tree search *)

NoOutput == [fn |-> "none"]

Card == <<"C","a","r","d">>
Btn == <<"B","t","n">>
Nope == <<"N","o","p","e">>

SearchNames == {Card, Btn}

Idle ==
    /\ token = TRUE
    /\ pc = "idle"
    /\ req = [entry |-> "none"]
    /\ calls = <<>>
    /\ doc = Null
    /\ outcome = [kind |-> "none"]

InitSearch ==
    /\ Idle
    /\ \E n \in 1..SearchNodes : \E p \in Shapes(n) :
           \E nm \in [1..n -> SearchNames], bare \in SUBSET Leaves(p, n),
              name \in SearchNames \cup {Nope} :
               input = [node |-> DocOf(n, p, nm, [i \in 1..n |-> "FRAME"], bare),
                        name |-> name]
    /\ output = NoOutput

CallFindNodeByName ==
    /\ output = NoOutput
    /\ output' = [fn |-> "findNodeByName",
                  value |-> findNodeByName(input.node, input.name)]
    /\ UNCHANGED <<token, pc, req, calls, doc, outcome, input>>

CallFigmaServerFindNodeByName ==
    /\ output = NoOutput
    /\ output' = [fn |-> "FigmaServer.findNodeByName",
                  value |-> FigmaServer_findNodeByName(input.node, input.name)]
    /\ UNCHANGED <<token, pc, req, calls, doc, outcome, input>>

NextSearch == CallFindNodeByName \/ CallFigmaServerFindNodeByName

SpecSearch == InitSearch /\ [][NextSearch]_vars

RECURSIVE PreOrder(_)
RECURSIVE PreOrderAll(_, _)
\* the nodes of a tree, root before children, children in order
PreOrder(node) ==
    <<node>> \o (IF Has(node, "children") THEN PreOrderAll(node.children, 1) ELSE <<>>)
PreOrderAll(kids, k) ==
    IF k > Len(kids) THEN <<>> ELSE PreOrder(kids[k]) \o PreOrderAll(kids, k + 1)

Hits(node, name) == {i \in DOMAIN PreOrder(node) : PreOrder(node)[i].name = name}

Min(S) == CHOOSE m \in S : \A x \in S : m <= x

SearchDone == output.fn \in {"findNodeByName", "FigmaServer.findNodeByName"}

\* C1: both copies of findNodeByName return the first node in depth-first
\* pre-order whose name equals the name searched, and return null exactly
\* when no node of the tree has that name; nodes without `children` are
\* treated as leaves.
C1_FindFirstInPreOrder ==
    SearchDone =>
        LET hits == Hits(input.node, input.name)
        IN  /\ (output.value = Null) <=> (hits = {})
            /\ hits # {} => output.value = PreOrder(input.node)[Min(hits)]

\* the name occurs twice, the first occurrence is not the root and has a
\* sibling before it that carries no `children`
C1_Witness ==
    /\ output.fn = "FigmaServer.findNodeByName"
    /\ Cardinality(Hits(input.node, input.name)) >= 2
    /\ Min(Hits(input.node, input.name)) >= 3
    /\ ~Has(PreOrder(input.node)[2], "children")
    /\ output.value # Null

-----------------------------------------------------------------------------
(* Colour conversion *)

HexDigits == <<"0","1","2","3","4","5","6","7","8","9","a","b","c","d","e","f">>

\* Math.round(c * 255) for the channel c = k / ChanDen: floor(c * 255 + 1/2)
roundChannel(k) == (2 * k * 255 + ChanDen) \div (2 * ChanDen)

RECURSIVE toString16(_)
\* Number.prototype.toString(16) of a non-negative integer
toString16(n) ==
    IF n < 16 THEN <<HexDigits[n + 1]>>
    ELSE toString16(n \div 16) \o <<HexDigits[(n % 16) + 1]>>

RECURSIVE padStart(_, _, _)
\* String.prototype.padStart with a one-character filler
padStart(s, width, fill) ==
    IF Len(s) >= width THEN s ELSE padStart(<<fill>> \o s, width, fill)

\* the conversion with padStart left out
rgbaToHex_noPad(color) ==
    <<"#">> \o toString16(roundChannel(color.r))
            \o toString16(roundChannel(color.g))
            \o toString16(roundChannel(color.b))

\* web server
rgbaToHex(color) ==
    LET r == roundChannel(color.r)
        g == roundChannel(color.g)
        b == roundChannel(color.b)
    IN  <<"#">> \o padStart(toString16(r), 2, "0")
                \o padStart(toString16(g), 2, "0")
                \o padStart(toString16(b), 2, "0")

\* MCP server
FigmaServer_rgbaToHex(color) ==
    LET r == roundChannel(color.r)
        g == roundChannel(color.g)
        b == roundChannel(color.b)
    IN  <<"#">> \o padStart(toString16(r), 2, "0")
                \o padStart(toString16(g), 2, "0")
                \o padStart(toString16(b), 2, "0")

-----------------------------------------------------------------------------
(* Function-level specification: colour conversion *)

Channels == 0..ChanDen

Colors == [r : Channels, g : Channels, b : Channels]

InitHex ==
    /\ Idle
    /\ input \in Colors
    /\ output = NoOutput

CallRgbaToHex ==
    /\ output = NoOutput
    /\ output' = [fn |-> "rgbaToHex", value |-> rgbaToHex(input)]
    /\ UNCHANGED <<token, pc, req, calls, doc, outcome, input>>

CallFigmaServerRgbaToHex ==
    /\ output = NoOutput
    /\ output' = [fn |-> "FigmaServer.rgbaToHex", value |-> FigmaServer_rgbaToHex(input)]
    /\ UNCHANGED <<token, pc, req, calls, doc, outcome, input>>

NextHex == CallRgbaToHex \/ CallFigmaServerRgbaToHex

SpecHex == InitHex /\ [][NextHex]_vars

HexDone == output.fn \in {"rgbaToHex", "FigmaServer.rgbaToHex"}

\* the number a two-digit lowercase hexadecimal pair denotes
PairValue(s, i) == 16 * (IndexIn(HexDigits, s[i]) - 1) + (IndexIn(HexDigits, s[i + 1]) - 1)

\* m is the integer nearest to 255 * k / ChanDen, halves rounded up
IsRounded(m, k) ==
    /\ 2 * ChanDen * m - ChanDen <= 2 * 255 * k
    /\ 2 * 255 * k < 2 * ChanDen * m + ChanDen

\* C6: for every RGB triple with channels in [0,1], both copies of rgbaToHex
\* return '#' followed by exactly six lowercase hexadecimal digits, each pair
\* being the zero-padded base-16 rendering of round(channel * 255), a value
\* in 0..255; (1,0,0) gives #ff0000, (0,0,0) gives #000000 and
\* (0.5,0.5,0.5) gives #808080; the two copies agree.
C6_HexOfRoundedChannels ==
    HexDone =>
        LET s == output.value
        IN  /\ Len(s) = 7
            /\ s[1] = "#"
            /\ \A i \in 2..7 : s[i] \in Range(HexDigits)
            /\ \A ch \in {<<2, input.r>>, <<4, input.g>>, <<6, input.b>>} :
                   /\ PairValue(s, ch[1]) \in 0..255
                   /\ IsRounded(PairValue(s, ch[1]), ch[2])
            /\ (input = [r |-> ChanDen, g |-> 0, b |-> 0])
                   => s = <<"#","f","f","0","0","0","0">>
            /\ (input = [r |-> 0, g |-> 0, b |-> 0])
                   => s = <<"#","0","0","0","0","0","0">>
            /\ (2 * input.r = ChanDen /\ 2 * input.g = ChanDen /\ 2 * input.b = ChanDen)
                   => s = <<"#","8","0","8","0","8","0">>
            /\ rgbaToHex(input) = FigmaServer_rgbaToHex(input)

\* a channel that needs the zero padding, one that is 255, one strictly between
C6_Witness ==
    /\ output.fn = "rgbaToHex"
    /\ input.r = 0
    /\ input.g = ChanDen
    /\ input.b \notin {0, ChanDen}
    /\ Len(output.value) = 7

-----------------------------------------------------------------------------
(* Identifier of the generated React component *)

isAlphanumeric(c) == c \in Range(Lower) \cup Range(Upper) \cup Range(Digits)

\* str.replace(/[^a-zA-Z0-9]/g, ' ')
replaceNonAlphanumeric(s) == [i \in DOMAIN s |-> IF isAlphanumeric(s[i]) THEN s[i] ELSE " "]

RECURSIVE split(_, _)
\* String.prototype.split with a one-character separator
split(s, sep) ==
    IF sep \notin Range(s) THEN <<s>>
    ELSE LET i == CHOOSE j \in DOMAIN s :
                      s[j] = sep /\ \A m \in 1..(j - 1) : s[m] # sep
         IN  <<Slice(s, 1, i - 1)>> \o split(Slice(s, i + 1, Len(s)), sep)

\* word.charAt(0).toUpperCase() + word.slice(1).toLowerCase()
capitalize(word) ==
    toUpperCase(Slice(word, 1, 1)) \o toLowerCase(Slice(word, 2, Len(word)))

RECURSIVE join(_)
\* Array.prototype.join('')
join(words) == IF words = <<>> THEN <<>> ELSE Head(words) \o join(Tail(words))

\* the conversion with the rest of each word left as it was
FigmaServer_toPascalCase_keepRest(str) ==
    LET words == split(replaceNonAlphanumeric(str), " ")
    IN  join([i \in DOMAIN words |->
                 toUpperCase(Slice(words[i], 1, 1)) \o Slice(words[i], 2, Len(words[i]))])

FigmaServer_toPascalCase(str) ==
    LET words == split(replaceNonAlphanumeric(str), " ")
    IN  join([i \in DOMAIN words |-> capitalize(words[i])])

-----------------------------------------------------------------------------
(* Text content *)

RECURSIVE extractText_keepEmpty(_)
RECURSIVE extractText_keepEmpty_loop(_, _)
\* the text read with a present `characters` returned even when it is empty
extractText_keepEmpty(node) ==
    IF Has(node, "characters") THEN node.characters
    ELSE IF Has(node, "children") THEN extractText_keepEmpty_loop(node.children, 1)
         ELSE NullStr
extractText_keepEmpty_loop(children, k) ==
    IF k > Len(children) THEN NullStr
    ELSE LET text == extractText_keepEmpty(children[k])
         IN  IF text # NullStr /\ text # <<>> THEN text
             ELSE extractText_keepEmpty_loop(children, k + 1)

RECURSIVE extractText(_)
RECURSIVE extractText_loop(_, _)
\* web server
extractText(node) ==
    IF Has(node, "characters") /\ node.characters # <<>> THEN node.characters
    ELSE IF Has(node, "children") THEN extractText_loop(node.children, 1)
         ELSE NullStr
\* for (const child of node.children): the first truthy text
extractText_loop(children, k) ==
    IF k > Len(children) THEN NullStr
    ELSE LET text == extractText(children[k])
         IN  IF text # NullStr /\ text # <<>> THEN text
             ELSE extractText_loop(children, k + 1)

RECURSIVE FigmaServer_extractText(_)
RECURSIVE FigmaServer_extractText_loop(_, _)
\* MCP server
FigmaServer_extractText(node) ==
    IF Has(node, "characters") /\ node.characters # <<>> THEN node.characters
    ELSE IF Has(node, "children") THEN FigmaServer_extractText_loop(node.children, 1)
         ELSE NullStr
FigmaServer_extractText_loop(children, k) ==
    IF k > Len(children) THEN NullStr
    ELSE LET text == FigmaServer_extractText(children[k])
         IN  IF text # NullStr /\ text # <<>> THEN text
             ELSE FigmaServer_extractText_loop(children, k + 1)

-----------------------------------------------------------------------------
(* React component generator *)

\* a || b on numbers: b when a is undefined or 0
NumOr(obj, f, default) == IF Has(obj, f) /\ obj[f] # 0 THEN obj[f] ELSE default

\* a || b on strings: b when a is null or ''
StrOr(s, default) == IF s # NullStr /\ s # <<>> THEN s ELSE default

\* node.absoluteBoundingBox?.width (or height): NoFields when undefined
BoxOf(node) == IF Has(node, "absoluteBoundingBox") THEN node.absoluteBoundingBox ELSE NoFields

DefaultWidth == 200
DefaultHeight == 50
ReactDefaultRadius == 8
ReactDefaultBackground == <<"#","0","0","7","A","F","F">>
ButtonText == <<"B","u","t","t","o","n">>

\* the slots of the template literal, in the order they are filled
FigmaServer_generateReactCode(node) ==
    LET width == NumOr(BoxOf(node), "width", DefaultWidth)
        height == NumOr(BoxOf(node), "height", DefaultHeight)
        cornerRadius == NumOr(node, "cornerRadius", ReactDefaultRadius)
        backgroundColor ==
            IF Has(node, "fills") /\ Len(node.fills) > 0 /\ Has(node.fills[1], "color")
            THEN FigmaServer_rgbaToHex(node.fills[1].color)
            ELSE ReactDefaultBackground
        text == StrOr(FigmaServer_extractText(node), ButtonText)
    IN  [functionName |-> FigmaServer_toPascalCase(node.name),
         width |-> width,
         height |-> height,
         backgroundColor |-> backgroundColor,
         borderRadius |-> cornerRadius,
         text |-> text]

-----------------------------------------------------------------------------
(* Function-level specification: identifier of the generated component *)

PascalChars == {"a", "B", "1", "-", " ", "!"}

PrimaryCta == <<"p","r","i","m","a","r","y","-","c","t","a","!","!">>

Strings(max) == UNION {[1..n -> PascalChars] : n \in 0..max}

InitPascal ==
    /\ Idle
    /\ input \in [id : {1}, type : {"COMPONENT"}, name : Strings(MaxLen) \cup {PrimaryCta}]
    /\ output = NoOutput

CallToPascalCase ==
    /\ output = NoOutput
    /\ output' = [fn |-> "toPascalCase", value |-> FigmaServer_toPascalCase(input.name)]
    /\ UNCHANGED <<token, pc, req, calls, doc, outcome, input>>

CallGenerateReactCode ==
    /\ output = NoOutput
    /\ output' = [fn |-> "generateReactCode", value |-> FigmaServer_generateReactCode(input)]
    /\ UNCHANGED <<token, pc, req, calls, doc, outcome, input>>

NextPascal == CallToPascalCase \/ CallGenerateReactCode

SpecPascal == InitPascal /\ [][NextPascal]_vars

\* the identifier an output carries
PascalResult ==
    IF output.fn = "toPascalCase" THEN output.value ELSE output.value.functionName

\* positions of the alphanumeric characters of s, in order
AlnumPositions(s) ==
    LET P == {i \in DOMAIN s : isAlphanumeric(s[i])}
    IN  [k \in 1..Cardinality(P) |->
            CHOOSE i \in P : Cardinality({m \in P : m < i}) = k - 1]

\* C8: toPascalCase keeps exactly the alphanumeric characters of the name, in
\* order, a character that starts a word (the first of the name, or one that
\* follows a non-alphanumeric character) in upper case and every other one in
\* lower case; the result holds only alphanumeric characters; "primary-cta!!"
\* yields "PrimaryCta"; the generated React function carries that name.
C8_PascalCase ==
    output.fn \in {"toPascalCase", "generateReactCode"} =>
        LET s == input.name
            pos == AlnumPositions(s)
            r == PascalResult
        IN  /\ Len(r) = Len(pos)
            /\ \A k \in DOMAIN pos :
                   r[k] = IF pos[k] = 1 \/ ~isAlphanumeric(s[pos[k] - 1])
                          THEN charToUpperCase(s[pos[k]])
                          ELSE charToLowerCase(s[pos[k]])
            /\ \A k \in DOMAIN r : isAlphanumeric(r[k])
            /\ s = PrimaryCta => r = <<"P","r","i","m","a","r","y","C","t","a">>

\* the example of the claim, through the code generator
C8_Witness ==
    /\ output.fn = "generateReactCode"
    /\ input.name = PrimaryCta
    /\ output.value.functionName = <<"P","r","i","m","a","r","y","C","t","a">>

\* a name with an upper-case letter inside a word and two separators in a row
C8_WitnessMixed ==
    /\ output.fn = "toPascalCase"
    /\ input.name = <<"a", "B", "-", "-">>
    /\ output.value = <<"A", "b">>

-----------------------------------------------------------------------------
(* Component enumerator *)

\* the property f of the descriptor: left out when the value is undefined
Copy(obj, f, as) == Opt(Has(obj, f), as :> obj[f])

Descriptor(node) ==
    [id |-> node.id, name |-> node.name, type |-> node.type]
        @@ Copy(BoxOf(node), "width", "width")
        @@ Copy(BoxOf(node), "height", "height")
        @@ Copy(node, "fills", "fills")
        @@ Copy(node, "strokes", "strokes")
        @@ Copy(node, "cornerRadius", "cornerRadius")
        @@ Copy(node, "characters", "characters")

IsCollected(node) == node.type \in {"COMPONENT", "FRAME", "RECTANGLE"}

RECURSIVE FigmaServer_extractComponents_stopAtOthers(_, _)
RECURSIVE FigmaServer_extractComponents_stopAtOthers_forEach(_, _, _)
\* the enumerator descending only below the nodes it collects
FigmaServer_extractComponents_stopAtOthers(node, components) ==
    IF IsCollected(node)
    THEN LET pushed == Append(components, Descriptor(node))
         IN  IF Has(node, "children")
             THEN FigmaServer_extractComponents_stopAtOthers_forEach(node.children, 1, pushed)
             ELSE pushed
    ELSE components
FigmaServer_extractComponents_stopAtOthers_forEach(children, k, components) ==
    IF k > Len(children) THEN components
    ELSE FigmaServer_extractComponents_stopAtOthers_forEach(children, k + 1,
             FigmaServer_extractComponents_stopAtOthers(children[k], components))

RECURSIVE FigmaServer_extractComponents(_, _)
RECURSIVE FigmaServer_extractComponents_forEach(_, _, _)
FigmaServer_extractComponents(node, components) ==
    LET pushed == IF IsCollected(node)
                  THEN Append(components, Descriptor(node))
                  ELSE components
    IN  IF Has(node, "children")
        THEN FigmaServer_extractComponents_forEach(node.children, 1, pushed)
        ELSE pushed
\* node.children.forEach(child => this.extractComponents(child, components)),
\* from the k-th child on
FigmaServer_extractComponents_forEach(children, k, components) ==
    IF k > Len(children) THEN components
    ELSE FigmaServer_extractComponents_forEach(children, k + 1,
             FigmaServer_extractComponents(children[k], components))

-----------------------------------------------------------------------------
(* Function-level specification: component enumerator *)

EnumTypes == {"CANVAS", "COMPONENT", "FRAME", "RECTANGLE", "TEXT", "INSTANCE"}

InitEnum ==
    /\ Idle
    /\ \E n \in 1..EnumNodes : \E p \in Shapes(n) :
           \E ty \in [1..n -> EnumTypes], bare \in SUBSET Leaves(p, n) :
               input = DocOf(n, p, [i \in 1..n |-> Card], ty, bare)
    /\ output = NoOutput

CallExtractComponents ==
    /\ output = NoOutput
    /\ output' = [fn |-> "extractComponents",
                  value |-> FigmaServer_extractComponents(input, <<>>)]
    /\ UNCHANGED <<token, pc, req, calls, doc, outcome, input>>

NextEnum == CallExtractComponents

SpecEnum == InitEnum /\ [][NextEnum]_vars

\* the nodes of the three collected types, in document order
CollectedInOrder(root) ==
    SelectSeq(PreOrder(root),
              LAMBDA n : n.type = "COMPONENT" \/ n.type = "FRAME" \/ n.type = "RECTANGLE")

\* C7: extractComponents returns one descriptor for each node of type
\* COMPONENT, FRAME or RECTANGLE and for no other node, in depth-first
\* pre-order, the descendants of nodes it does not collect included; a
\* COMPONENT root with a single TEXT child yields exactly one descriptor.
C7_EnumerateCollectedTypes ==
    output.fn = "extractComponents" =>
        LET want == CollectedInOrder(input)
            got == output.value
        IN  /\ Len(got) = Len(want)
            /\ \A k \in DOMAIN got :
                   /\ got[k].id = want[k].id
                   /\ got[k].name = want[k].name
                   /\ got[k].type = want[k].type
            /\ ( /\ input.type = "COMPONENT"
                 /\ Has(input, "children")
                 /\ Len(input.children) = 1
                 /\ input.children[1].type = "TEXT"
                 /\ ~Has(input.children[1], "children") )
               => Len(got) = 1

\* a collected node below a node that is not collected, after an excluded one
C7_Witness ==
    /\ output.fn = "extractComponents"
    /\ input.type = "CANVAS"
    /\ Has(input, "children")
    /\ Len(input.children) = 1
    /\ input.children[1].type = "INSTANCE"
    /\ Has(input.children[1], "children")
    /\ Len(input.children[1].children) = 1
    /\ input.children[1].children[1].type = "RECTANGLE"
    /\ Len(output.value) = 1

\* the example of the claim
C7_WitnessExample ==
    /\ output.fn = "extractComponents"
    /\ input.type = "COMPONENT"
    /\ Has(input, "children")
    /\ Len(input.children) = 1
    /\ input.children[1].type = "TEXT"
    /\ Len(output.value) = 1

-----------------------------------------------------------------------------
(* Style extractor of the web server *)

Transparent == <<"t","r","a","n","s","p","a","r","e","n","t">>
Black == <<"#","0","0","0","0","0","0">>
TextDefault == <<"T","e","x","t">>
LEFT == <<"L","E","F","T">>

DefaultFontSize == 16
DefaultFontWeight == 400
RoundedFrom == 4
BoldFrom == 600

RECURSIVE findTextNode(_)
RECURSIVE findTextNode_loop(_, _)
findTextNode(node) ==
    IF node.type = "TEXT" THEN node
    ELSE IF Has(node, "children") THEN findTextNode_loop(node.children, 1)
         ELSE Null
\* for (const child of node.children): the first TEXT node found
findTextNode_loop(children, k) ==
    IF k > Len(children) THEN Null
    ELSE LET textNode == findTextNode(children[k])
         IN  IF textNode # Null THEN textNode ELSE findTextNode_loop(children, k + 1)

\* node.fills && node.fills.length > 0
HasFills(node) == Has(node, "fills") /\ Len(node.fills) > 0

\* the background read with the test of fill.visible left out
backgroundOf_ignoreVisible(node) ==
    IF HasFills(node)
    THEN LET fill == node.fills[1]
         IN  IF Has(fill, "type") /\ fill.type = "SOLID" /\ Has(fill, "color")
             THEN LET backgroundColor == rgbaToHex(fill.color)
                      opacity == IF Has(fill, "opacity") THEN fill.opacity ELSE ChanDen
                  IN  [backgroundColor |-> backgroundColor,
                       hasBackground |-> opacity > 0 /\ backgroundColor # Transparent,
                       fillDebug |-> [json |-> fill]]
             ELSE [backgroundColor |-> Transparent, hasBackground |-> FALSE,
                   fillDebug |-> [json |-> fill]]
    ELSE [backgroundColor |-> Transparent, hasBackground |-> FALSE,
          fillDebug |-> [text |-> "No fills"]]

\* the background read with the test of the opacity left out
backgroundOf_anyOpacity(node) ==
    IF HasFills(node)
    THEN LET fill == node.fills[1]
             isVisible == ~Has(fill, "visible") \/ fill.visible = TRUE
         IN  IF isVisible /\ Has(fill, "type") /\ fill.type = "SOLID" /\ Has(fill, "color")
             THEN LET backgroundColor == rgbaToHex(fill.color)
                  IN  [backgroundColor |-> backgroundColor,
                       hasBackground |-> backgroundColor # Transparent,
                       fillDebug |-> [json |-> fill]]
             ELSE [backgroundColor |-> Transparent, hasBackground |-> FALSE,
                   fillDebug |-> [json |-> fill]]
    ELSE [backgroundColor |-> Transparent, hasBackground |-> FALSE,
          fillDebug |-> [text |-> "No fills"]]

\* backgroundColor, hasBackground and fillDebug; an opacity is a numerator
\* over ChanDen, as a colour channel is
backgroundOf(node) ==
    IF HasFills(node)
    THEN LET fill == node.fills[1]
             isVisible == ~Has(fill, "visible") \/ fill.visible = TRUE
         IN  IF isVisible /\ Has(fill, "type") /\ fill.type = "SOLID" /\ Has(fill, "color")
             THEN LET backgroundColor == rgbaToHex(fill.color)
                      opacity == IF Has(fill, "opacity") THEN fill.opacity ELSE ChanDen
                  IN  [backgroundColor |-> backgroundColor,
                       hasBackground |-> opacity > 0 /\ backgroundColor # Transparent,
                       fillDebug |-> [json |-> fill]]
             ELSE [backgroundColor |-> Transparent, hasBackground |-> FALSE,
                   fillDebug |-> [json |-> fill]]
    ELSE [backgroundColor |-> Transparent, hasBackground |-> FALSE,
          fillDebug |-> [text |-> "No fills"]]

\* the colour of the first fill of a node, when it has one
HasFillColor(node) == HasFills(node) /\ Has(node.fills[1], "color")

textColorOf(node) ==
    IF node.type = "TEXT" /\ HasFillColor(node)
    THEN rgbaToHex(node.fills[1].color)
    ELSE IF Has(node, "children")
         THEN LET textNode == findTextNode(node)
              IN  IF textNode # Null /\ HasFillColor(textNode)
                  THEN rgbaToHex(textNode.fills[1].color)
                  ELSE Black
         ELSE Black

\* fontSize, fontWeight and textAlign
fontOf(node) ==
    LET textNode == IF node.type = "TEXT" THEN node ELSE findTextNode(node)
    IN  IF textNode # Null
        THEN [fontSize |-> NumOr(textNode, "fontSize", DefaultFontSize),
              fontWeight |-> NumOr(textNode, "fontWeight", DefaultFontWeight),
              textAlign |-> toLowerCase(
                  IF Has(textNode, "textAlignHorizontal")
                     /\ textNode.textAlignHorizontal # <<>>
                  THEN textNode.textAlignHorizontal ELSE LEFT)]
        ELSE [fontSize |-> DefaultFontSize,
              fontWeight |-> DefaultFontWeight,
              textAlign |-> toLowerCase(LEFT)]

\* the visual test with a radius of exactly 4 not counted as rounded
isButtonLike_above(node, cornerRadius, hasBackground, fontWeight) ==
    LET isFrame == node.type \in {"FRAME", "COMPONENT", "INSTANCE"}
        hasRoundedCorners == cornerRadius > RoundedFrom
        hasBorder == Has(node, "strokes") /\ Len(node.strokes) > 0
    IN  isFrame /\ (hasBackground \/ hasBorder)
                /\ (hasRoundedCorners \/ fontWeight >= BoldFrom)

isButtonLike(node, cornerRadius, hasBackground, fontWeight) ==
    LET isFrame == node.type \in {"FRAME", "COMPONENT", "INSTANCE"}
        hasRoundedCorners == cornerRadius >= RoundedFrom
        hasBorder == Has(node, "strokes") /\ Len(node.strokes) > 0
    IN  isFrame /\ (hasBackground \/ hasBorder)
                /\ (hasRoundedCorners \/ fontWeight >= BoldFrom)

\* the name tier with the input names tested before the text names
typeOf_inputFirst(node, cornerRadius, hasBackground, fontWeight) ==
    LET nameLower == toLowerCase(node.name)
    IN  IF includes(nameLower, <<"b","u","t","t","o","n">>)
           \/ includes(nameLower, <<"b","t","n">>)
        THEN "button"
        ELSE IF includes(nameLower, <<"i","n","p","u","t">>)
                \/ includes(nameLower, <<"t","e","x","t","b","o","x">>)
                \/ includes(nameLower, <<"f","i","e","l","d">>)
        THEN "input"
        ELSE IF includes(nameLower, <<"t","e","x","t">>)
                \/ includes(nameLower, <<"l","a","b","e","l">>)
                \/ includes(nameLower, <<"t","i","t","l","e">>)
                \/ includes(nameLower, <<"h","e","a","d","i","n","g">>)
        THEN "text"
        ELSE IF node.type = "TEXT" THEN "text"
        ELSE IF isButtonLike(node, cornerRadius, hasBackground, fontWeight) THEN "button"
        ELSE "text"

\* the component type: by name first, by visual characteristics otherwise
typeOf(node, cornerRadius, hasBackground, fontWeight) ==
    LET nameLower == toLowerCase(node.name)
    IN  IF includes(nameLower, <<"b","u","t","t","o","n">>)
           \/ includes(nameLower, <<"b","t","n">>)
        THEN "button"
        ELSE IF includes(nameLower, <<"t","e","x","t">>)
                \/ includes(nameLower, <<"l","a","b","e","l">>)
                \/ includes(nameLower, <<"t","i","t","l","e">>)
                \/ includes(nameLower, <<"h","e","a","d","i","n","g">>)
        THEN "text"
        ELSE IF includes(nameLower, <<"i","n","p","u","t">>)
                \/ includes(nameLower, <<"t","e","x","t","b","o","x">>)
                \/ includes(nameLower, <<"f","i","e","l","d">>)
        THEN "input"
        ELSE IF node.type = "TEXT" THEN "text"
        ELSE IF isButtonLike(node, cornerRadius, hasBackground, fontWeight) THEN "button"
        ELSE "text"

extractComponentStyle(node) ==
    LET width == NumOr(BoxOf(node), "width", DefaultWidth)
        height == NumOr(BoxOf(node), "height", DefaultHeight)
        cornerRadius == NumOr(node, "cornerRadius", 0)
        background == backgroundOf(node)
        font == fontOf(node)
    IN  [type |-> typeOf(node, cornerRadius, background.hasBackground, font.fontWeight),
         text |-> StrOr(extractText(node), TextDefault),
         width |-> width,
         height |-> height,
         backgroundColor |-> background.backgroundColor,
         borderRadius |-> cornerRadius,
         color |-> textColorOf(node),
         fontSize |-> font.fontSize,
         fontWeight |-> font.fontWeight,
         textAlign |-> font.textAlign,
         fillDebug |-> background.fillDebug]

-----------------------------------------------------------------------------
(* Nodes drawn for the style extractor *)

Red == [r |-> ChanDen, g |-> 0, b |-> 0]
White == [r |-> ChanDen, g |-> ChanDen, b |-> ChanDen]

SolidRed == [type |-> "SOLID", color |-> Red]
SolidWhite == [type |-> "SOLID", color |-> White]
Clear == [type |-> "SOLID", color |-> Red, opacity |-> 0]
Stroke == [type |-> "SOLID", color |-> [r |-> 0, g |-> 0, b |-> 0]]

OK == <<"O","K">>
Label == <<"L","a","b","e","l">>

\* a TEXT leaf with the given optional attributes
TextChild(id, chars, weight, fills) ==
    [id |-> id, name |-> Label, type |-> "TEXT"]
        @@ Opt(chars.has, [characters |-> chars.v])
        @@ Opt(weight.has, [fontWeight |-> weight.v])
        @@ Opt(fills.has, [fills |-> fills.v])

StyleNode(name, type, box, radius, fills, strokes, kids) ==
    [id |-> 1, name |-> name, type |-> type]
        @@ Opt(box.has, [absoluteBoundingBox |-> box.v])
        @@ Opt(radius.has, [cornerRadius |-> radius.v])
        @@ Opt(fills.has, [fills |-> fills.v])
        @@ Opt(strokes.has, [strokes |-> strokes.v])
        @@ Opt(kids.has, [children |-> kids.v])

-----------------------------------------------------------------------------
(* Function-level specification: the type classifier *)

NameTokens ==
    { <<"B","u","t","t","o","n">>, <<"B","T","N">>,
      <<"T","e","x","t">>, <<"l","a","b","e","l">>, <<"T","i","t","l","e">>,
      <<"H","e","a","d","i","n","g">>,
      <<"I","n","p","u","t">>, <<"T","e","x","t","B","o","x">>, <<"F","i","e","l","d">>,
      Card }

RECURSIVE TokenNames(_)
\* the names made of 1..n tokens
TokenNames(n) ==
    IF n = 0 THEN {}
    ELSE NameTokens \cup {a \o b : <<a, b>> \in TokenNames(n - 1) \X NameTokens}

SubmitButton == <<"S","u","b","m","i","t"," ","B","u","t","t","o","n">>

ClassifyNames == TokenNames(MaxTokens) \cup {SubmitButton}

NodeTypes == {"FRAME", "COMPONENT", "INSTANCE", "TEXT", "RECTANGLE"}

WeightedKids ==
    Optional({ <<TextChild(2, Some(OK), w, Absent)>> :
                   w \in Optional({BoldFrom - 1, BoldFrom}) })

\* every name with the visual attributes that decide the visual tier, and the
\* name Card with the boundary values of each
ClassifyInputs ==
    { StyleNode(nm, ty, Absent, rad, fl, st, kd) :
        <<nm, ty, rad, fl, st, kd>> \in
            ClassifyNames \X {"FRAME", "TEXT", "RECTANGLE"} \X Optional({8})
                \X Optional({<<SolidRed>>}) \X Optional({<<Stroke>>})
                \X Optional({<<TextChild(2, Some(OK), Some(BoldFrom), Absent)>>}) }
    \cup
    { StyleNode(Card, ty, Absent, rad, fl, st, kd) :
        <<ty, rad, fl, st, kd>> \in
            NodeTypes \X Optional({0, RoundedFrom - 1, RoundedFrom, 8})
                \X Optional({<<>>, <<SolidRed>>, <<Clear>>,
                             <<SolidRed @@ [opacity |-> 1]>>,
                             <<SolidRed @@ [visible |-> FALSE]>>,
                             <<SolidRed @@ [visible |-> TRUE]>>})
                \X Optional({<<>>, <<Stroke>>})
                \X WeightedKids }

InitClassify ==
    /\ Idle
    /\ input \in ClassifyInputs
    /\ output = NoOutput

CallExtractComponentStyle ==
    /\ output = NoOutput
    /\ output' = [fn |-> "extractComponentStyle",
                  value |-> extractComponentStyle(input),
                  \* the local of that name, which the record returned leaves out
                  hasBackground |-> backgroundOf(input).hasBackground]
    /\ UNCHANGED <<token, pc, req, calls, doc, outcome, input>>

NextClassify == CallExtractComponentStyle

SpecClassify == InitClassify /\ [][NextClassify]_vars

StyleDone == output.fn = "extractComponentStyle"

\* the node name contains sub, letter case ignored
NameHas(node, sub) == includes(toLowerCase(node.name), sub)

NameIsButton(node) ==
    NameHas(node, <<"b","u","t","t","o","n">>) \/ NameHas(node, <<"b","t","n">>)
NameIsText(node) ==
    \/ NameHas(node, <<"t","e","x","t">>) \/ NameHas(node, <<"l","a","b","e","l">>)
    \/ NameHas(node, <<"t","i","t","l","e">>) \/ NameHas(node, <<"h","e","a","d","i","n","g">>)
NameIsInput(node) ==
    \/ NameHas(node, <<"i","n","p","u","t">>)
    \/ NameHas(node, <<"t","e","x","t","b","o","x">>)
    \/ NameHas(node, <<"f","i","e","l","d">>)

C2_WitnessOrder ==
    /\ StyleDone
    /\ input.name = <<"I","n","p","u","t","B","T","N">>
    /\ input.type = "TEXT"
    /\ output.value.type = "button"

\* C3: a node named TextBox, Input or Field (in any letter case) is
\* classified as an input field.
C3_NamedInputIsInput ==
    StyleDone /\ toLowerCase(input.name) \in
                    { <<"t","e","x","t","b","o","x">>, <<"i","n","p","u","t">>,
                      <<"f","i","e","l","d">> }
        => output.value.type = "input"

\* the font weight the extractor resolves: the node's own when it is TEXT,
\* that of the first TEXT node below it otherwise, 400 when there is none
ResolvedWeight(node) ==
    LET texts == SelectSeq(PreOrder(node), LAMBDA n : n.type = "TEXT")
    IN  IF texts = <<>> THEN 400
        ELSE IF Has(texts[1], "fontWeight") /\ texts[1].fontWeight # 0
             THEN texts[1].fontWeight ELSE 400

\* a fill whose visible flag is true or absent, of type SOLID, with a colour
VisibleSolid(fill) ==
    /\ Has(fill, "visible") => fill.visible
    /\ Has(fill, "type") /\ fill.type = "SOLID"
    /\ Has(fill, "color")

NoNameTier(node) == ~NameIsButton(node) /\ ~NameIsText(node) /\ ~NameIsInput(node)

C4_WitnessBorderBold ==
    /\ StyleDone
    /\ input.name = Card /\ input.type = "INSTANCE"
    /\ ~HasFills(input)
    /\ Has(input, "strokes") /\ input.strokes # <<>>
    /\ Has(input, "cornerRadius") /\ input.cornerRadius = 3
    /\ ResolvedWeight(input) = 600
    /\ output.value.type = "button"

-----------------------------------------------------------------------------
(* Function-level specification: background colour *)

\* paints: visible absent/true/false, two paint types, colour absent or
\* present, opacity absent, 0 or 1
Paints ==
    { [type |-> ty] @@ Opt(vis.has, [visible |-> vis.v])
                    @@ Opt(col.has, [color |-> col.v])
                    @@ Opt(op.has, [opacity |-> op.v]) :
        <<ty, vis, col, op>> \in
            {"SOLID", "GRADIENT_LINEAR"}
                \X {Absent, Some(TRUE), Some(FALSE)}
                \X {Absent, Some(Red)}
                \X {Absent, Some(0), Some(ChanDen)} }

PaintSeqs(max) == UNION {[1..n -> Paints] : n \in 0..max}

FillInputs ==
    { StyleNode(Card, ty, Absent, Some(8), fl, Absent, Absent) :
        <<ty, fl>> \in {"FRAME", "TEXT"} \X ({Absent} \cup {Some(q) : q \in PaintSeqs(MaxFills)}) }

InitFills ==
    /\ Idle
    /\ input \in FillInputs
    /\ output = NoOutput

NextFills == CallExtractComponentStyle

SpecFills == InitFills /\ [][NextFills]_vars

\* the first fill cannot give a background
NoUsableFirstFill(node) ==
    \/ ~Has(node, "fills")
    \/ node.fills = <<>>
    \/ (Has(node.fills[1], "visible") /\ node.fills[1].visible = FALSE)
    \/ node.fills[1].type # "SOLID"
    \/ ~Has(node.fills[1], "color")

\* the node with every fill after the first removed
FirstFillOnly(node) ==
    IF HasFills(node) THEN [node EXCEPT !.fills = <<node.fills[1]>>] ELSE node

\* C5: when fills is absent or empty, or the first fill is invisible, is not
\* SOLID or has no colour, backgroundColor is "transparent" and hasBackground
\* is false; the fills after the first influence neither.
C5_FirstFillOnly ==
    StyleDone =>
        /\ NoUsableFirstFill(input) =>
               /\ output.value.backgroundColor = Transparent
               /\ output.hasBackground = FALSE
        /\ output.value.backgroundColor
               = extractComponentStyle(FirstFillOnly(input)).backgroundColor
        /\ output.hasBackground = backgroundOf(FirstFillOnly(input)).hasBackground
        /\ output.value.type = extractComponentStyle(FirstFillOnly(input)).type

\* an invisible solid first fill followed by a visible solid one
C5_Witness ==
    /\ StyleDone
    /\ input.type = "FRAME"
    /\ Has(input, "fills") /\ Len(input.fills) = 2
    /\ input.fills[1] = [type |-> "SOLID", visible |-> FALSE, color |-> Red]
    /\ input.fills[2] = [type |-> "SOLID", color |-> Red]
    /\ output.value.backgroundColor = Transparent
    /\ output.hasBackground = FALSE
    /\ output.value.type = "text"

-----------------------------------------------------------------------------
(* Function-level specification: dimensions and corner radius *)

Dims == 0..MaxDim

Boxes ==
    { Opt(w.has, [width |-> w.v]) @@ Opt(h.has, [height |-> h.v]) @@ [x |-> 0, y |-> 0] :
        <<w, h>> \in Optional(Dims) \X Optional(Dims) }

BoxInputs ==
    { StyleNode(Card, ty, box, rad, Absent, Absent, Absent) :
        <<ty, box, rad>> \in
            {"FRAME", "RECTANGLE"} \X Optional(Boxes) \X Optional({0, RoundedFrom}) }

InitBox ==
    /\ Idle
    /\ input \in BoxInputs
    /\ output = NoOutput

NextBox == CallExtractComponentStyle \/ CallGenerateReactCode

SpecBox == InitBox /\ [][NextBox]_vars

\* C9: the StyleRecord's width and height are those of the node's
\* absoluteBoundingBox when it is present, and are 200 and 50 only when the
\* box, or that dimension of it, is absent.
C9_DimensionsFromBox ==
    StyleDone =>
        /\ output.value.width =
               IF Has(input, "absoluteBoundingBox")
                  /\ Has(input.absoluteBoundingBox, "width")
               THEN input.absoluteBoundingBox.width ELSE 200
        /\ output.value.height =
               IF Has(input, "absoluteBoundingBox")
                  /\ Has(input.absoluteBoundingBox, "height")
               THEN input.absoluteBoundingBox.height ELSE 50

-----------------------------------------------------------------------------
(* Requests: the web route and the MCP tool handlers *)

\* !x for an optional string argument: undefined or ''
FalsyText(arg) == ~arg.has \/ arg.v = ""
\* !x for an optional name (a sequence of characters)
FalsyName(arg) == ~arg.has \/ arg.v = <<>>

\* `${x}` of an optional string argument
Interpolated(arg) == IF arg.has THEN arg.v ELSE "undefined"
\* `${x}` of an optional name
InterpolatedName(arg) ==
    IF arg.has THEN arg.v ELSE <<"u","n","d","e","f","i","n","e","d">>
\* the name a search is given: NullStr stands for undefined, which no node
\* name is identical to
NameArg(arg) == IF arg.has THEN arg.v ELSE NullStr

\* axios.get(`https://api.figma.com/v1/files/${fileKey}`, ...)
GetFile(fileKey) == [method |-> "GET", path |-> <<"files/", Interpolated(fileKey)>>]

\* error.response?.data?.err || error.message
ErrDetail(error) ==
    IF Has(error, "response") /\ Has(error.response, "data")
       /\ Has(error.response.data, "err") /\ error.response.data.err # ""
    THEN error.response.data.err
    ELSE error.message

\* res.status(code).json(body); a message is the sequence of the parts of
\* its template literal
Http(code, body) == [kind |-> "http", status |-> code, body |-> body]
\* throw new Error(message), which the MCP SDK answers the caller with
Thrown(message) == [kind |-> "throw", message |-> message]
\* return { content: [{ type: 'text', text }] }
ToolResult(text) == [kind |-> "result", content |-> <<[type |-> "text", text |-> text]>>]

\* the answers of the web route that do not depend on the document
webNoToken == Http(500, [error |-> <<"FIGMA_TOKEN not configured">>])
webInvalid == Http(400, [error |-> <<"fileKey and componentName are required">>])
webFetchFailed(error) ==
    Http(500, [error |-> <<"Failed to fetch from Figma">>, details |-> ErrDetail(error)])

\* new request on POST /api/fetch-component, up to the await of axios.get
WebReceive(fileKey, componentName) ==
    /\ pc = "idle"
    /\ req' = [entry |-> "web", fileKey |-> fileKey, name |-> componentName]
    /\ IF ~token
       THEN /\ outcome' = webNoToken
            /\ pc' = "done"
            /\ UNCHANGED calls
       ELSE IF FalsyText(fileKey) \/ FalsyName(componentName)
       THEN /\ outcome' = webInvalid
            /\ pc' = "done"
            /\ UNCHANGED calls
       ELSE /\ calls' = Append(calls, GetFile(fileKey))
            /\ pc' = "fetching"
            /\ UNCHANGED outcome
    /\ UNCHANGED <<token, doc, input, output>>

\* the fetch of the web route resolves with the document
WebFetchReturns(document) ==
    /\ pc = "fetching"
    /\ req.entry = "web"
    /\ doc' = document
    /\ LET component == findNodeByName(document, req.name.v)
       IN  outcome' =
               IF component = Null
               THEN Http(404, [error |-> <<"Component \"", req.name.v, "\" not found">>])
               ELSE Http(200, [success |-> TRUE,
                               component |-> extractComponentStyle(component),
                               message |-> <<"Found \"", req.name.v, "\" in Figma!">>])
    /\ pc' = "done"
    /\ UNCHANGED <<token, req, calls, input, output>>

\* the fetch of the web route rejects: the catch block
WebFetchFails(error) ==
    /\ pc = "fetching"
    /\ req.entry = "web"
    /\ outcome' = webFetchFailed(error)
    /\ pc' = "done"
    /\ UNCHANGED <<token, req, calls, doc, input, output>>

Tools == {"get_figma_file", "generate_react_component", "create_button"}

mcpNoToken == Thrown(<<"FIGMA_TOKEN environment variable is required">>)

\* the CallToolRequestSchema handler, up to the await of the tool's axios.get
McpReceive(tool, fileKey, nodeName) ==
    /\ pc = "idle"
    /\ req' = [entry |-> tool, fileKey |-> fileKey, name |-> nodeName]
    /\ IF ~token
       THEN /\ outcome' = mcpNoToken
            /\ pc' = "done"
            /\ UNCHANGED calls
       ELSE IF tool \notin Tools
       THEN /\ outcome' = Thrown(<<"Unknown tool: ", <<tool>>>>)
            /\ pc' = "done"
            /\ UNCHANGED calls
       ELSE /\ calls' = Append(calls, GetFile(fileKey))
            /\ pc' = "fetching"
            /\ UNCHANGED outcome
    /\ UNCHANGED <<token, doc, input, output>>

\* the message of the Error that catch (error) of a tool rethrows
Rethrown(tool, message) ==
    CASE tool = "get_figma_file" -> Thrown(<<"Failed to fetch Figma file: ", message>>)
      [] tool = "generate_react_component" ->
             Thrown(<<"Failed to generate component: ", message>>)
      [] tool = "create_button" ->
             Thrown(<<"Failed to create button: ", message,
                      "Note: Creating nodes in Figma requires using the Figma Plugin API">>)

\* getFigmaFile after its fetch resolved
getFigmaFile_resolved(document) ==
    ToolResult([name |-> "File", lastModified |-> "date",
                components |-> FigmaServer_extractComponents(document, <<>>)])

\* generateReactComponent after its fetch resolved: the Error for a node
\* that is not found is thrown inside the try block and caught by its catch
generateReactComponent_resolved(document, nodeName) ==
    LET component == FigmaServer_findNodeByName(document, NameArg(nodeName))
    IN  IF component = Null
        THEN Rethrown("generate_react_component",
                      <<"Component \"", InterpolatedName(nodeName), "\" not found in Figma file">>)
        ELSE ToolResult(FigmaServer_generateReactCode(component))

\* the fetch of getFigmaFile or generateReactComponent resolves
McpFetchReturns(document) ==
    /\ pc = "fetching"
    /\ req.entry \in {"get_figma_file", "generate_react_component"}
    /\ doc' = document
    /\ outcome' = IF req.entry = "get_figma_file"
                  THEN getFigmaFile_resolved(document)
                  ELSE generateReactComponent_resolved(document, req.name)
    /\ pc' = "done"
    /\ UNCHANGED <<token, req, calls, input, output>>

\* parseInt(pair, 16) of two hexadecimal digits of either letter case
parseInt16(pair) ==
    16 * (IndexIn(HexDigits, charToLowerCase(pair[1])) - 1)
        + (IndexIn(HexDigits, charToLowerCase(pair[2])) - 1)

\* the channels as numerators over 255
FigmaServer_hexToRgba(hex) ==
    [r |-> parseInt16(Slice(hex, 2, 3)),
     g |-> parseInt16(Slice(hex, 4, 5)),
     b |-> parseInt16(Slice(hex, 6, 7)),
     a |-> 255]

\* the frame createButton posts, its arguments at their defaults
ButtonFrame ==
    [type |-> "FRAME", name |-> ButtonText, width |-> DefaultWidth, height |-> DefaultHeight,
     fills |-> <<[type |-> "SOLID", color |-> FigmaServer_hexToRgba(ReactDefaultBackground)]>>,
     cornerRadius |-> ReactDefaultRadius]

\* the first fetch of createButton resolves: up to the await of axios.post
CreateButtonFetchReturns(document) ==
    /\ pc = "fetching"
    /\ req.entry = "create_button"
    /\ doc' = document
    /\ IF ~Has(document, "children")
       THEN /\ outcome' = Rethrown("create_button",
                                   <<"Cannot read properties of undefined (reading '0')">>)
            /\ pc' = "done"
            /\ UNCHANGED calls
       ELSE IF document.children = <<>>
       THEN /\ outcome' = Rethrown("create_button", <<"No page found in Figma file">>)
            /\ pc' = "done"
            /\ UNCHANGED calls
       ELSE /\ calls' = Append(calls,
                   [method |-> "POST",
                    path |-> <<"files/", Interpolated(req.fileKey), "/nodes">>,
                    node_id |-> document.children[1].id,
                    nodes |-> <<ButtonFrame>>])
            /\ pc' = "posting"
            /\ UNCHANGED outcome
    /\ UNCHANGED <<token, req, input, output>>

\* the post of createButton resolves
CreateButtonPostReturns ==
    /\ pc = "posting"
    /\ outcome' = ToolResult(<<"Button created successfully in Figma!",
                               doc.children[1].name>>)
    /\ pc' = "done"
    /\ UNCHANGED <<token, req, calls, doc, input, output>>

\* what the catch block of a tool throws when axios rejected with error
mcpCallFailed(tool, error) ==
    Rethrown(tool, <<IF tool = "create_button" THEN ErrDetail(error) ELSE error.message>>)

\* a fetch or the post of an MCP tool rejects: the tool's catch block
McpCallFails(error) ==
    /\ pc \in {"fetching", "posting"}
    /\ req.entry \in Tools
    /\ outcome' = mcpCallFailed(req.entry, error)
    /\ pc' = "done"
    /\ UNCHANGED <<token, req, calls, doc, input, output>>

-----------------------------------------------------------------------------
(* Specification of the request machine *)

FileKeys == {Absent, Some(""), Some("KEY")}
RequestNames == {Absent, Some(<<>>), Some(Card), Some(Nope)}
ToolNames == Tools \cup {"delete_file"}

\* what the fetch can resolve with
RouteDocs == Docs(RouteNodes, {Card, Btn}, {"FRAME", "TEXT"})

\* what axios rejects with: an HTTP error that carries the API's `err`, and
\* a transport error without a response
UpstreamErrors ==
    { [message |-> "Request failed with status code 403",
       response |-> [data |-> [err |-> "Invalid token"]]],
      [message |-> "Network Error"] }

Init ==
    /\ token \in BOOLEAN
    /\ pc = "idle"
    /\ req = [entry |-> "none"]
    /\ calls = <<>>
    /\ doc = Null
    /\ outcome = [kind |-> "none"]
    /\ input = Null
    /\ output = NoOutput

Next ==
    \/ \E fileKey \in FileKeys, name \in RequestNames : WebReceive(fileKey, name)
    \/ \E document \in RouteDocs : WebFetchReturns(document)
    \/ \E error \in UpstreamErrors : WebFetchFails(error)
    \/ \E tool \in ToolNames, fileKey \in FileKeys, name \in RequestNames :
           McpReceive(tool, fileKey, name)
    \/ \E document \in RouteDocs : McpFetchReturns(document)
    \/ \E document \in RouteDocs : CreateButtonFetchReturns(document)
    \/ CreateButtonPostReturns
    \/ \E error \in UpstreamErrors : McpCallFails(error)

Spec == Init /\ [][Next]_vars

-----------------------------------------------------------------------------
(* Outcomes a caller can tell apart *)

\* the entry points that search the fetched document by name
SearchEntries == {"web", "generate_react_component"}

\* the request, which named a file and a node, ended after a fetch that
\* succeeded and a search that found no node of the name asked for
EndedNotFound ==
    /\ pc = "done"
    /\ req.entry \in SearchEntries
    /\ ~FalsyText(req.fileKey)
    /\ ~FalsyName(req.name)
    /\ doc # Null
    /\ Hits(doc, req.name.v) = {}

\* what an entry point answers when its fetch fails with error, and when no
\* credential is configured
FetchFailedOutcome(entry, error) ==
    IF entry = "web" THEN webFetchFailed(error) ELSE mcpCallFailed(entry, error)
NoCredentialOutcome(entry) == IF entry = "web" THEN webNoToken ELSE mcpNoToken

\* the kind of a failure as the handler states it: the HTTP status (0 for a
\* thrown Error) and the literal text its message starts with; what follows
\* is interpolated (a name, or the message of another party's error)
OutcomeKind(o) ==
    IF o.kind = "http" THEN <<"http", o.status, Head(o.body.error)>>
    ELSE <<"throw", 0, Head(o.message)>>

\* C10: on the web route and on generate_react_component, the outcome of a
\* search that finds no node after a successful fetch differs in kind from
\* the outcome of a failed fetch and from the outcome of a missing
\* credential, and these two differ from each other.
C10_NotFoundIsDistinct ==
    EndedNotFound =>
        \A error \in UpstreamErrors :
            /\ OutcomeKind(outcome) # OutcomeKind(FetchFailedOutcome(req.entry, error))
            /\ OutcomeKind(outcome) # OutcomeKind(NoCredentialOutcome(req.entry))
            /\ OutcomeKind(FetchFailedOutcome(req.entry, error))
                   # OutcomeKind(NoCredentialOutcome(req.entry))

\* the same statement for the web route alone
WebNotFoundIsDistinct == req.entry = "web" => C10_NotFoundIsDistinct

-----------------------------------------------------------------------------
(* Validation before the network *)

\* the request lacks an identifying parameter its operation needs: the file
\* key on every entry point, the node name where the document is searched
MissingParameter ==
    /\ req.entry \in {"web"} \cup Tools
    /\ \/ FalsyText(req.fileKey)
       \/ (req.entry \in SearchEntries /\ FalsyName(req.name))

\* the outcome says that the request is invalid
InvalidRequestOutcome == outcome.kind = "http" /\ outcome.status = webInvalid.status

\* C11: on every entry point, a request that lacks a required identifying
\* parameter makes no outbound call and, once answered, is answered as an
\* invalid request; a request made without a credential makes no outbound
\* call either.
C11_InvalidBeforeNetwork ==
    /\ (token /\ MissingParameter) =>
           /\ calls = <<>>
           /\ pc = "done" => InvalidRequestOutcome
    /\ (~token /\ req.entry # "none") => (calls = <<>> /\ pc = "done")

\* the same statement for the web route alone
WebInvalidBeforeNetwork == req.entry = "web" => C11_InvalidBeforeNetwork

\* the credential half of the statement, on every entry point
CredentialBeforeNetwork ==
    (~token /\ req.entry # "none") =>
        /\ calls = <<>>
        /\ pc = "done"
        /\ outcome.kind \in {"http", "throw"}
        /\ OutcomeKind(outcome) = OutcomeKind(NoCredentialOutcome(req.entry))

-----------------------------------------------------------------------------
(* Function-level specification: hasBackground and the opacity of the fill *)

\* first fills: visible absent/true/false, two paint types, colour absent or
\* present, opacity absent or any numerator from 0 (0) to ChanDen (1)
OpacityPaints ==
    { [type |-> ty] @@ Opt(vis.has, [visible |-> vis.v])
                    @@ Opt(col.has, [color |-> col.v])
                    @@ Opt(op.has, [opacity |-> op.v]) :
        <<ty, vis, col, op>> \in
            {"SOLID", "GRADIENT_LINEAR"}
                \X {Absent, Some(TRUE), Some(FALSE)}
                \X {Absent, Some(Red), Some(White)}
                \X ({Absent} \cup {Some(k) : k \in 0..ChanDen}) }

OpacityInputs ==
    { StyleNode(Card, "FRAME", Absent, Some(8), fl, Absent, Absent) :
        fl \in {Absent, Some(<<>>)}
                   \cup {Some(<<p>>) : p \in OpacityPaints}
                   \cup {Some(<<p, SolidRed>>) : p \in OpacityPaints} }

InitOpacity ==
    /\ Idle
    /\ input \in OpacityInputs
    /\ output = NoOutput

NextOpacity == CallExtractComponentStyle

SpecOpacity == InitOpacity /\ [][NextOpacity]_vars

\* the first fill is visible (visible true or absent), SOLID and has a color
UsableFirstFill(node) == ~NoUsableFirstFill(node)

\* fill.opacity !== undefined ? fill.opacity : 1, of the first fill
FirstFillOpacity(node) ==
    IF Has(node.fills[1], "opacity") THEN node.fills[1].opacity ELSE ChanDen

\* C12 as stated: hasBackground is true exactly when the first fill is
\* visible, SOLID and has a color, that is whenever a hex backgroundColor was
\* produced, whatever the opacity of the fill.
C12_HasBackgroundIffHex ==
    StyleDone =>
        /\ output.hasBackground <=> UsableFirstFill(input)
        /\ output.hasBackground <=> (output.value.backgroundColor # Transparent)

\* C12: hasBackground is true exactly when the first fill is visible (visible
\* true or absent), is SOLID, has a color and its opacity, 1 when absent, is
\* above 0; the hex backgroundColor is produced from the first fill whatever
\* the opacity.
C12_HasBackgroundIffOpaque ==
    StyleDone =>
        /\ output.hasBackground
               <=> (UsableFirstFill(input) /\ FirstFillOpacity(input) > 0)
        /\ UsableFirstFill(input) =>
               output.value.backgroundColor = rgbaToHex(input.fills[1].color)
        /\ ~UsableFirstFill(input) => output.value.backgroundColor = Transparent

\* a visible solid red first fill of opacity 0: the hex colour is produced and
\* hasBackground is false
C12_Witness ==
    /\ StyleDone
    /\ Has(input, "fills") /\ input.fills = <<Clear>>
    /\ output.value.backgroundColor = rgbaToHex(Red)
    /\ output.hasBackground = FALSE

\* the same fill at half opacity and at no stated opacity has a background
C12_WitnessOpaque ==
    /\ StyleDone
    /\ UsableFirstFill(input)
    /\ FirstFillOpacity(input) \in 1..ChanDen
    /\ output.hasBackground = TRUE

-----------------------------------------------------------------------------
(* The corner radius on the two extraction paths, checked under SpecBox *)

ReactDone == output.fn = "generateReactCode"

\* the generic extractor's borderRadius is node.cornerRadius when present, 0
\* when absent
GenericRadiusFromNode ==
    StyleDone =>
        output.value.borderRadius =
            IF Has(input, "cornerRadius") THEN input.cornerRadius ELSE 0

\* C13: the generic extractor's borderRadius is node.cornerRadius when the
\* attribute is present and 0 when it is absent; the React-component
\* generator's borderRadius is node.cornerRadius when present and 8 when
\* absent; the two agree for every node that carries a cornerRadius.
C13_RadiusDefaultsDiverge ==
    /\ GenericRadiusFromNode
    /\ ReactDone =>
           /\ output.value.borderRadius =
                  IF Has(input, "cornerRadius") THEN input.cornerRadius ELSE 8
           /\ Has(input, "cornerRadius") =>
                  output.value.borderRadius = extractComponentStyle(input).borderRadius

\* the same statement for the nodes whose cornerRadius is absent or not 0
RadiusDefaultsDivergeNonZero ==
    (Has(input, "cornerRadius") => input.cornerRadius # 0) => C13_RadiusDefaultsDiverge

\* a node with cornerRadius 0: the generator emits 8, the extractor 0
RadiusZeroDisagrees ==
    /\ ReactDone
    /\ Has(input, "cornerRadius") /\ input.cornerRadius = 0
    /\ output.value.borderRadius = ReactDefaultRadius
    /\ extractComponentStyle(input).borderRadius = 0

-----------------------------------------------------------------------------
(* Function-level specification: text content *)

\* the most children a drawn group has
MaxKids == 2

\* the values of `characters`: empty or not
TextValues == {<<>>, OK, Label}

\* a FRAME with optional `characters` and optional `children`
Group(id, chars, kids) ==
    [id |-> id, name |-> Card, type |-> "FRAME"]
        @@ Opt(chars.has, [characters |-> chars.v])
        @@ Opt(kids.has, [children |-> kids.v])

\* the first child of the root: a group with at most one TEXT child
InnerGroups ==
    { Group(2, c, kids) :
        <<c, kids>> \in Optional(TextValues)
            \X ({Absent} \cup {Some(<<TextChild(3, g, Absent, Absent)>>) :
                                   g \in Optional(TextValues)}) }

\* n TEXT leaves with ids from 4 on
TextLeaves(n) ==
    { [k \in 1..n |-> TextChild(3 + k, cs[k], Absent, Absent)] :
        cs \in [1..n -> Optional(TextValues)] }

\* roots: no children, an empty list, or an inner group followed by leaves
TextInputs ==
    { Group(1, c, kids) :
        <<c, kids>> \in Optional(TextValues)
            \X ({Absent, Some(<<>>)}
                    \cup UNION { {Some(<<a>> \o ls) : <<a, ls>> \in InnerGroups \X TextLeaves(n)} :
                                   n \in 0..(MaxKids - 1) }) }

InitText ==
    /\ Idle
    /\ input \in TextInputs
    /\ output = NoOutput

NextText == CallExtractComponentStyle \/ CallGenerateReactCode

SpecText == InitText /\ [][NextText]_vars

\* the default text of the path that produced the output
DefaultTextOf(fn) == IF fn = "generateReactCode" THEN <<"B","u","t","t","o","n">>
                     ELSE <<"T","e","x","t">>

\* the positions, in the pre-order of the descendants of node, of the nodes
\* with a non-empty `characters`
DescendantTexts(node) ==
    LET below == Tail(PreOrder(node))
    IN  {i \in DOMAIN below : Has(below[i], "characters") /\ below[i].characters # <<>>}

\* the first non-empty `characters` among the descendants, else the default
FirstDescendantText(node, default) ==
    IF DescendantTexts(node) = {} THEN default
    ELSE Tail(PreOrder(node))[Min(DescendantTexts(node))].characters

TextDone == StyleDone \/ ReactDone

\* C14 as stated: the text is the node's own `characters` if the attribute is
\* present, otherwise the first non-empty `characters` of the descendants in
\* pre-order, otherwise the default; it is never empty and the input is not
\* modified.
C14_OwnCharactersIfPresent ==
    /\ [](TextDone =>
            /\ output.value.text =
                   IF Has(input, "characters") THEN input.characters
                   ELSE FirstDescendantText(input, DefaultTextOf(output.fn))
            /\ output.value.text # <<>>)
    /\ [][input' = input]_vars

\* C14: the text is the node's own `characters` if the attribute is present
\* and not empty, otherwise the first non-empty `characters` met in the
\* depth-first pre-order of the descendants, otherwise the default "Text"
\* ("Button" in the React-component generator); it is never empty and the
\* input tree is not modified.
C14_OwnCharactersIfNonEmpty ==
    /\ [](TextDone =>
            /\ output.value.text =
                   IF Has(input, "characters") /\ input.characters # <<>>
                   THEN input.characters
                   ELSE FirstDescendantText(input, DefaultTextOf(output.fn))
            /\ output.value.text # <<>>)
    /\ [][input' = input]_vars

\* a root with an empty `characters` over a grandchild and a later child that
\* both carry text: the grandchild's text is extracted
C14_Witness ==
    /\ StyleDone
    /\ Has(input, "characters") /\ input.characters = <<>>
    /\ Has(input, "children") /\ Len(input.children) = 2
    /\ ~Has(input.children[1], "characters")
    /\ Has(input.children[1], "children")
    /\ Has(input.children[1].children[1], "characters")
    /\ input.children[1].children[1].characters = OK
    /\ Has(input.children[2], "characters")
    /\ input.children[2].characters = Label
    /\ output.value.text = OK

\* no `characters` anywhere but empty ones: the generator falls to "Button"
C14_WitnessDefault ==
    /\ ReactDone
    /\ Has(input, "characters") /\ input.characters = <<>>
    /\ Has(input, "children") /\ Len(input.children) = 2
    /\ DescendantTexts(input) = {}
    /\ output.value.text = ButtonText

====
